---- MODULE Spec2Model ----
(***************************************************************************)
(* Model of the rain / runway analysis core of the airfield weather app:   *)
(*   rain_analysis_V4.py  split_wet_runway_episodes, analyze_rain_events,  *)
(*                        format_event, RAIN_LEVEL_MAP, is_runway_dry_state*)
(*                                                                         *)
(* Labels.  The program's level and state labels are Chinese strings; the  *)
(* model writes them in ASCII:                                             *)
(*   "rain_stopped" = yu ting        "drizzle"  = mao mao yu               *)
(*   "light"        = xiao yu        "moderate" = zhong yu                 *)
(*   "heavy"        = da yu          "violent"  = bao yu                   *)
(*   "thunderstorm" = lei zhen yu                                          *)
(*   "Dry" = pao dao gan             "RecoveredDry" = pao dao hui fu gan   *)
(*   "Wet" = pao dao shi             "MostlyWet" = pao dao da bu shi       *)
(*                                                                         *)
(* DataFrame.sort_values is called with its default kind ("quicksort"),    *)
(* which is not a stable sort: rows with equal keys may come out in any    *)
(* order.  SortValues therefore yields every key-ordered arrangement.      *)
(***************************************************************************)
EXTENDS Integers, Sequences, FiniteSets

\* ------------------------------------------------------------------ bounds
\* splitter inputs: timestamps 1..MaxTime, at most MaxRain rain rows and
\* MaxRunway runway rows, at most MaxRows rows in all
MaxTime == 2
MaxRain == 3
MaxRunway == 2
MaxRows == 4
\* segmenter inputs: at most MaxSeg rows with timestamps 1..MaxSegTime
MaxSeg == 3
MaxSegTime == 2
\* parse_time_numeric inputs: at most MaxText characters
MaxText == 5
\* event store: at most MaxStored rows in both tables together
MaxStored == 3

Times == 1..MaxTime
SegTimes == 1..MaxSegTime

\* ------------------------------------------------------------ label sets
RainLevels ==
  {"rain_stopped", "drizzle", "light", "moderate", "heavy", "violent",
   "thunderstorm"}

RunwayStates == {"Dry", "MostlyWet", "Wet", "RecoveredDry"}

\* Levels the splitter's inputs are drawn from: the splitter only tests
\* level != "rain_stopped".
SplitLevels == {"rain_stopped", "moderate"}

\* start_time = None / end_time = None
NoneTime == 0

\* A column a timeline row does not carry (NaN in the merged DataFrame).
NaN == "NaN"

\* ------------------------------------------------------------- helpers
is_runway_dry_state_wetToo(state) == state \in {"Dry", "RecoveredDry", "Wet"}

is_runway_dry_state_dryOnly(state) == state = "Dry"

is_runway_dry_state(state) == state \in {"Dry", "RecoveredDry"}

is_runway_wet_state(state) == state \in {"Wet", "MostlyWet"}

RECURSIVE KeyOrdered(_)
\* every arrangement of the rows of S (a set of rows with distinct
\* identity) that is non-decreasing in the key column t
KeyOrdered(S) ==
  IF S = {} THEN {<<>>}
  ELSE UNION { { <<x>> \o p : p \in KeyOrdered(S \ {x}) } :
               x \in {y \in S : \A z \in S : y.t <= z.t} }

Range(seq) == {seq[k] : k \in 1..Len(seq)}

Reverse(seq) == [k \in 1..Len(seq) |-> seq[Len(seq) + 1 - k]]

SortValues_descending(seq) == {Reverse(p) : p \in KeyOrdered(Range(seq))}

SortValues(seq) == KeyOrdered(Range(seq))

\* ------------------------------------------------------------- inputs
SortedTimes(n, T) ==
  {ts \in [1..n -> T] : \A k \in 1..(n - 1) : ts[k] <= ts[k + 1]}

\* rain DataFrames as the callers build them: rows ordered by time, each
\* row identified by its index label id
RainFrames(maxLen, T, L) ==
  UNION { { [k \in 1..n |-> [id |-> k, t |-> ts[k], level |-> ls[k]]] :
            ts \in SortedTimes(n, T), ls \in [1..n -> L] } :
          n \in 0..maxLen }

RunwayFrames(maxLen, T) ==
  UNION { { [k \in 1..n |-> [id |-> k, t |-> ts[k], state |-> ss[k]]] :
            ts \in SortedTimes(n, T), ss \in [1..n -> RunwayStates] } :
          n \in 0..maxLen }

\* ---------------------------------------------------------------- state
VARIABLES
  pc,              \* position in split_wet_runway_episodes
  rain_df,         \* argument rain_df
  runway_df,       \* argument runway_df
  timeline,        \* merged, time-sorted timeline
  pos,             \* number of timeline rows already scanned
  in_episode,
  rain_records,
  runway_records,
  start_time,
  end_time,
  episodes,
  hist,            \* history: in_episode as it was before each scanned row
  rain_none,       \* argument rain_df is None
  runway_none,     \* argument runway_df is None
  seg_pc,          \* position in analyze_rain_events
  df,              \* argument df
  sorted_df,       \* df after sort_values
  seg_pos,         \* number of rows already iterated
  events,
  current,
  result,          \* the returned list of formatted events
  time_pc,         \* position in a call of parse_time_numeric
  time_raw,        \* argument s, a sequence of characters
  time_ret,        \* the returned value
  rain_events,     \* table rain_events, rows in rowid order
  runway_states,   \* table runway_states, rows in rowid order
  op,              \* the operation that ran last
  raw_in,          \* time text of the last save
  ui_msg,          \* what the last save reported: "error" or "success"
  q_start,         \* start_date of the last range query
  q_end,           \* end_date of the last range query
  q_rows,          \* rows the last range query returned
  vn_pc,           \* position in a call of to_vn
  vn_in,           \* the observation time DDHHMMZ as day, hour, minute
  vn_out           \* the day, hour and minute to_vn prints

splitVars ==
  <<pc, rain_df, runway_df, timeline, pos, in_episode, rain_records,
    runway_records, start_time, end_time, episodes, hist, rain_none,
    runway_none>>

segVars == <<seg_pc, df, sorted_df, seg_pos, events, current, result>>

timeVars == <<time_pc, time_raw, time_ret>>

storeVars ==
  <<rain_events, runway_states, op, raw_in, ui_msg, q_start, q_end, q_rows>>

vnVars == <<vn_pc, vn_in, vn_out>>

vars == <<splitVars, segVars, timeVars, storeVars, vnVars>>

SegIdle ==
  /\ seg_pc = "idle"
  /\ df = <<>>
  /\ sorted_df = <<>>
  /\ seg_pos = 0
  /\ events = <<>>
  /\ current = <<>>
  /\ result = <<>>

\* parse_time_numeric returns None
NoneRet == [ok |-> FALSE, text |-> <<>>]

TimeIdle ==
  /\ time_pc = "idle"
  /\ time_raw = <<>>
  /\ time_ret = NoneRet

StoreIdle ==
  /\ rain_events = <<>>
  /\ runway_states = <<>>
  /\ op = "idle"
  /\ raw_in = <<>>
  /\ ui_msg = "none"
  /\ q_start = 0
  /\ q_end = 0
  /\ q_rows = <<>>

VnIdle ==
  /\ vn_pc = "idle"
  /\ vn_in = <<1, 0, 0>>
  /\ vn_out = <<1, 0, 0>>

SplitIdle ==
  /\ pc = "idle"
  /\ rain_df = <<>>
  /\ runway_df = <<>>
  /\ timeline = <<>>
  /\ pos = 0
  /\ in_episode = FALSE
  /\ rain_records = <<>>
  /\ runway_records = <<>>
  /\ start_time = NoneTime
  /\ end_time = NoneTime
  /\ episodes = <<>>
  /\ hist = <<>>
  /\ rain_none = FALSE
  /\ runway_none = FALSE

\* ------------------------------------------------- split_wet_runway_episodes
RainRow(r) ==
  [kind |-> "rain", id |-> r.id, t |-> r.t, level |-> r.level, state |-> NaN]

RunwayRow(r) ==
  [kind |-> "runway", id |-> r.id, t |-> r.t, level |-> NaN, state |-> r.state]

Episode(s, e, rain, rw) ==
  [start |-> s, end |-> e, rain_df |-> rain, runway_df |-> rw]

InitSplit ==
  /\ pc = "call"
  /\ rain_df \in RainFrames(MaxRain, Times, SplitLevels)
  /\ runway_df \in RunwayFrames(MaxRunway, Times)
  /\ Len(rain_df) + Len(runway_df) <= MaxRows
  /\ timeline = <<>>
  /\ pos = 0
  /\ in_episode = FALSE
  /\ rain_records = <<>>
  /\ runway_records = <<>>
  /\ start_time = NoneTime
  /\ end_time = NoneTime
  /\ episodes = <<>>
  /\ hist = <<>>
  /\ rain_none \in BOOLEAN /\ (rain_none => rain_df = <<>>)
  /\ runway_none \in BOOLEAN /\ (runway_none => runway_df = <<>>)
  /\ SegIdle
  /\ TimeIdle
  /\ StoreIdle
  /\ VnIdle

\* (rain_df is None or rain_df.empty) and (runway_df is None or
\* runway_df.empty)
BothEmpty ==
  /\ (rain_none \/ rain_df = <<>>)
  /\ (runway_none \/ runway_df = <<>>)

\* both inputs empty or None: return []
EarlyReturn ==
  /\ pc = "call"
  /\ BothEmpty
  /\ pc' = "done"
  /\ UNCHANGED <<rain_df, runway_df, timeline, pos, in_episode, rain_records,
                 runway_records, start_time, end_time, episodes, hist, segVars,
                 timeVars, storeVars, vnVars, rain_none,
                 runway_none>>

\* one argument is None, the other holds rows: rain_df.copy() or
\* runway_df.copy() raises AttributeError
CopyOfNone ==
  /\ pc = "call"
  /\ ~BothEmpty
  /\ rain_none \/ runway_none
  /\ pc' = "error"
  /\ UNCHANGED <<rain_df, runway_df, timeline, pos, in_episode, rain_records,
                 runway_records, start_time, end_time, episodes, hist, segVars,
                 timeVars, storeVars, vnVars, rain_none, runway_none>>

\* copy and sort both inputs, list the rain rows then the runway rows,
\* sort the merged list by time
BuildTimeline ==
  /\ pc = "call"
  /\ ~BothEmpty
  /\ ~rain_none /\ ~runway_none
  /\ \E r_df \in SortValues(rain_df), rw_df \in SortValues(runway_df) :
       \E tl \in SortValues([k \in 1..Len(r_df) |-> RainRow(r_df[k])]
                             \o [k \in 1..Len(rw_df) |-> RunwayRow(rw_df[k])]) :
         timeline' = tl
  /\ pc' = "scan"
  /\ UNCHANGED <<rain_df, runway_df, pos, in_episode, rain_records,
                 runway_records, start_time, end_time, episodes, hist, segVars,
                 timeVars, storeVars, vnVars, rain_none,
                 runway_none>>

Scanning == pc = "scan" /\ pos < Len(timeline)

ev == timeline[pos + 1]

ScanRain_restart ==
  /\ Scanning
  /\ ev.kind = "rain" /\ ev.level # "rain_stopped"
  /\ in_episode' = TRUE
  /\ rain_records' =
       (IF in_episode THEN rain_records ELSE <<>>)
         \o <<[id |-> ev.id, t |-> ev.t, level |-> ev.level]>>
  /\ runway_records' = (IF in_episode THEN runway_records ELSE <<>>)
  /\ start_time' = ev.t
  /\ end_time' = ev.t
  /\ pos' = pos + 1
  /\ hist' = Append(hist, in_episode)
  /\ UNCHANGED <<pc, rain_df, runway_df, timeline, episodes, segVars,
                 timeVars, storeVars, vnVars, rain_none,
                 runway_none>>

\* rain row, level != rain_stopped
ScanRain ==
  /\ Scanning
  /\ ev.kind = "rain" /\ ev.level # "rain_stopped"
  /\ in_episode' = TRUE
  /\ rain_records' =
       (IF in_episode THEN rain_records ELSE <<>>)
         \o <<[id |-> ev.id, t |-> ev.t, level |-> ev.level]>>
  /\ runway_records' = (IF in_episode THEN runway_records ELSE <<>>)
  /\ start_time' = (IF in_episode THEN start_time ELSE ev.t)
  /\ end_time' = ev.t
  /\ pos' = pos + 1
  /\ hist' = Append(hist, in_episode)
  /\ UNCHANGED <<pc, rain_df, runway_df, timeline, episodes, segVars,
                 timeVars, storeVars, vnVars, rain_none,
                 runway_none>>

ScanRainStop_alwaysAppend ==
  /\ Scanning
  /\ ev.kind = "rain" /\ ev.level = "rain_stopped"
  /\ rain_records' =
       Append(rain_records, [id |-> ev.id, t |-> ev.t, level |-> ev.level])
  /\ end_time' = ev.t
  /\ pos' = pos + 1
  /\ hist' = Append(hist, in_episode)
  /\ UNCHANGED <<pc, rain_df, runway_df, timeline, in_episode, runway_records,
                 start_time, episodes, segVars,
                 timeVars, storeVars, vnVars, rain_none,
                 runway_none>>

\* rain row, level = rain_stopped
ScanRainStop ==
  /\ Scanning
  /\ ev.kind = "rain" /\ ev.level = "rain_stopped"
  /\ IF in_episode
       THEN /\ rain_records' =
                 Append(rain_records, [id |-> ev.id, t |-> ev.t, level |-> ev.level])
            /\ end_time' = ev.t
       ELSE UNCHANGED <<rain_records, end_time>>
  /\ pos' = pos + 1
  /\ hist' = Append(hist, in_episode)
  /\ UNCHANGED <<pc, rain_df, runway_df, timeline, in_episode, runway_records,
                 start_time, episodes, segVars,
                 timeVars, storeVars, vnVars, rain_none,
                 runway_none>>

ScanRunway_noReset ==
  /\ Scanning
  /\ ev.kind = "runway"
  /\ IF in_episode
       THEN LET rw == Append(runway_records,
                             [id |-> ev.id, t |-> ev.t, state |-> ev.state])
            IN  /\ runway_records' = rw
                /\ end_time' = ev.t
                /\ episodes' =
                     (IF is_runway_dry_state(ev.state)
                        THEN Append(episodes,
                                    Episode(start_time, ev.t, rain_records, rw))
                        ELSE episodes)
                /\ UNCHANGED <<in_episode, rain_records, start_time>>
       ELSE UNCHANGED <<episodes, in_episode, rain_records, runway_records,
                        start_time, end_time>>
  /\ pos' = pos + 1
  /\ hist' = Append(hist, in_episode)
  /\ UNCHANGED <<pc, rain_df, runway_df, timeline, segVars,
                 timeVars, storeVars, vnVars, rain_none,
                 runway_none>>

\* runway row
ScanRunway ==
  /\ Scanning
  /\ ev.kind = "runway"
  /\ IF in_episode
       THEN LET rw == Append(runway_records,
                             [id |-> ev.id, t |-> ev.t, state |-> ev.state])
            IN  IF is_runway_dry_state(ev.state)
                  THEN /\ episodes' =
                            Append(episodes, Episode(start_time, ev.t, rain_records, rw))
                       /\ in_episode' = FALSE
                       /\ rain_records' = <<>>
                       /\ runway_records' = <<>>
                       /\ start_time' = NoneTime
                       /\ end_time' = NoneTime
                  ELSE /\ runway_records' = rw
                       /\ end_time' = ev.t
                       /\ UNCHANGED <<episodes, in_episode, rain_records, start_time>>
       ELSE UNCHANGED <<episodes, in_episode, rain_records, runway_records,
                        start_time, end_time>>
  /\ pos' = pos + 1
  /\ hist' = Append(hist, in_episode)
  /\ UNCHANGED <<pc, rain_df, runway_df, timeline, segVars,
                 timeVars, storeVars, vnVars, rain_none,
                 runway_none>>

Finish_dropOpen ==
  /\ pc = "scan"
  /\ pos = Len(timeline)
  /\ pc' = "done"
  /\ UNCHANGED <<rain_df, runway_df, timeline, pos, in_episode, rain_records,
                 runway_records, start_time, end_time, episodes, hist, segVars,
                 timeVars, storeVars, vnVars, rain_none,
                 runway_none>>

\* after the loop: emit the episode that is still open, return episodes
Finish ==
  /\ pc = "scan"
  /\ pos = Len(timeline)
  /\ episodes' =
       (IF in_episode /\ (rain_records # <<>> \/ runway_records # <<>>)
          THEN Append(episodes,
                      Episode(start_time, end_time, rain_records, runway_records))
          ELSE episodes)
  /\ pc' = "done"
  /\ UNCHANGED <<rain_df, runway_df, timeline, pos, in_episode, rain_records,
                 runway_records, start_time, end_time, hist, segVars,
                 timeVars, storeVars, vnVars, rain_none,
                 runway_none>>

NextSplit ==
  \/ EarlyReturn
  \/ CopyOfNone
  \/ BuildTimeline
  \/ ScanRain
  \/ ScanRainStop
  \/ ScanRunway
  \/ Finish

SpecSplit == InitSplit /\ [][NextSplit]_vars

\* ======================================================================
\* Properties of split_wet_runway_episodes (checked under SpecSplit)
\* ======================================================================
DryClass == {"Dry", "RecoveredDry"}

WetClass == {"Wet", "MostlyWet"}

Scanned == 1..Len(hist)

\* row k was a dry-class runway row scanned while an episode was open
ClosedAt(k) ==
  hist[k] /\ timeline[k].kind = "runway" /\ timeline[k].state \in DryClass

Closers == {k \in Scanned : ClosedAt(k)}

OpenAfter(k) == IF k < Len(hist) THEN hist[k + 1] ELSE in_episode

\* the ordinal of the episode that is open while row k is scanned
EpIdx(k) == Cardinality({j \in Closers : j < k}) + 1

InBuffers(e, rain, rw) ==
  IF e.kind = "rain"
    THEN \E j \in 1..Len(rain) : rain[j].id = e.id
    ELSE \E j \in 1..Len(rw) : rw[j].id = e.id

\* row k is held by the n-th episode (emitted, or still being built)
HeldBy(k, n) ==
  IF n <= Len(episodes)
    THEN InBuffers(timeline[k], episodes[n].rain_df, episodes[n].runway_df)
    ELSE InBuffers(timeline[k], rain_records, runway_records)

\* C1: an open episode is closed only by a dry-class runway row; every row
\* scanned while an episode is open lands in that episode; the number of
\* emitted episodes is the number of dry-class runway rows scanned while an
\* episode was open, plus one if an episode is still open after the scan.
C1_OnlyDryClassCloses ==
  /\ \A k \in Scanned : (hist[k] /\ ~OpenAfter(k)) => ClosedAt(k)
  /\ \A k \in Scanned : hist[k] => HeldBy(k, EpIdx(k))
  /\ Len(episodes) =
       Cardinality(Closers) + (IF pc = "done" /\ in_episode THEN 1 ELSE 0)

\* an emitted episode that holds onset, rain-stopped, onset again and a
\* wet-class runway row
C1_Witness ==
  /\ pc = "done"
  /\ \E n \in 1..Len(episodes) :
       LET e == episodes[n]
       IN  /\ \E j, k \in 1..Len(e.rain_df) :
                /\ j < k
                /\ e.rain_df[j].level = "rain_stopped"
                /\ e.rain_df[k].level # "rain_stopped"
           /\ \E j \in 1..Len(e.runway_df) : e.runway_df[j].state \in WetClass

\* C2: rows of equal timestamp are scanned rain before runway; a rain onset
\* and a Dry runway row at the same time, nothing else, give one closed
\* episode holding both.
C2_RainBeforeRunwayOnTies ==
  /\ \A j, k \in 1..Len(timeline) :
       (j < k /\ timeline[j].t = timeline[k].t)
         => ~(timeline[j].kind = "runway" /\ timeline[k].kind = "rain")
  /\ (/\ pc = "done"
      /\ Len(rain_df) = 1 /\ Len(runway_df) = 1
      /\ rain_df[1].level # "rain_stopped"
      /\ runway_df[1].state = "Dry"
      /\ rain_df[1].t = runway_df[1].t)
       => /\ Len(episodes) = 1
          /\ ~in_episode
          /\ Len(episodes[1].rain_df) = 1
          /\ Len(episodes[1].runway_df) = 1

RowKeys(e) ==
  {<<"rain", e.rain_df[j].id>> : j \in 1..Len(e.rain_df)}
    \cup {<<"runway", e.runway_df[j].id>> : j \in 1..Len(e.runway_df)}

\* C3: emitted episodes are in chronological order and do not overlap:
\* consecutive episodes satisfy end <= next start and start <= next start,
\* and no input row is held by two episodes.
C3_ChronologicalDisjoint ==
  /\ \A n \in 1..(Len(episodes) - 1) :
       /\ episodes[n].end <= episodes[n + 1].start
       /\ episodes[n].start <= episodes[n + 1].start
  /\ \A m, n \in 1..Len(episodes) :
       m # n => RowKeys(episodes[m]) \cap RowKeys(episodes[n]) = {}

\* two episodes, the later one opened by a rain row that shares its
\* timestamp with the dry-class row that closed the earlier one
C3_Witness ==
  /\ pc = "done"
  /\ Len(episodes) >= 2
  /\ episodes[1].end = episodes[2].start

\* row k was appended to a buffer when it was scanned
Folded(k) ==
  \/ hist[k]
  \/ timeline[k].kind = "rain" /\ timeline[k].level # "rain_stopped"

LastCloser == IF Closers = {} THEN 0 ELSE CHOOSE k \in Closers : \A j \in Closers : j <= k

OpenRows == {k \in Scanned : k > LastCloser /\ Folded(k)}

\* C4: an episode still open when the scan ends is emitted as the last
\* element, once; it holds every row buffered since the last closure and
\* its end is the timestamp of the last row folded into it.
C4_OpenEpisodeEmittedLast ==
  (pc = "done" /\ in_episode) =>
    /\ Len(episodes) = Cardinality(Closers) + 1
    /\ LET e == episodes[Len(episodes)]
           last == CHOOSE k \in OpenRows : \A j \in OpenRows : j <= k
       IN  /\ RowKeys(e) = {<<timeline[k].kind, timeline[k].id>> : k \in OpenRows}
           /\ Len(e.rain_df) + Len(e.runway_df) = Cardinality(OpenRows)
           /\ e.end = timeline[last].t

\* a closed episode followed by an open-ended one that holds a wet-class
\* runway row
C4_Witness ==
  /\ pc = "done" /\ in_episode
  /\ Len(episodes) >= 2
  /\ episodes[Len(episodes)].runway_df # <<>>

ClosedShape(e) ==
  \/ e.runway_df = <<>>
  \/ /\ e.runway_df[Len(e.runway_df)].state \in DryClass
     /\ \A j \in 1..(Len(e.runway_df) - 1) : e.runway_df[j].state \notin DryClass

\* C5: every emitted episode other than the last has a runway buffer that
\* is empty or ends with a dry-class row and has no dry-class row before
\* its last row; only the last one may end with a wet-class row.
C5_RunwayBufferEndsDry ==
  \A n \in 1..Len(episodes) :
    (n < Len(episodes) \/ pc # "done" \/ ~in_episode) => ClosedShape(episodes[n])

\* a closed episode followed by a last episode whose runway buffer ends
\* with a wet-class row
C5_Witness ==
  /\ pc = "done"
  /\ Len(episodes) >= 2
  /\ LET e == episodes[Len(episodes)]
     IN  e.runway_df # <<>> /\ e.runway_df[Len(e.runway_df)].state \in WetClass
  /\ episodes[1].runway_df # <<>>

NoiseRow(e) ==
  e.kind = "runway" \/ (e.kind = "rain" /\ e.level = "rain_stopped")

C6_Step ==
  (Scanning /\ ~in_episode /\ NoiseRow(ev))
    => UNCHANGED <<in_episode, rain_records, runway_records, start_time,
                   end_time, episodes>>

C6_State ==
  /\ \A k \in Scanned :
       (~hist[k] /\ NoiseRow(timeline[k]))
         => \A n \in 1..Len(episodes) :
              ~InBuffers(timeline[k], episodes[n].rain_df, episodes[n].runway_df)
  /\ (pc = "done" /\ \A j \in 1..Len(rain_df) : rain_df[j].level = "rain_stopped")
       => episodes = <<>>

\* C6: while no episode is open, a runway row and a rain-stopped row leave
\* the open flag, both buffers, start, end and the emitted episodes
\* unchanged and are held by no emitted episode; an input of runway and
\* rain-stopped rows only yields no episode.
C6_NoiseDroppedWhileClosed == [][C6_Step]_vars /\ []C6_State

\* a Dry runway row and a rain-stopped row were scanned with no episode
\* open, between two emitted episodes
C6_Witness ==
  /\ pc = "done"
  /\ Len(episodes) >= 1
  /\ \E j, k \in Scanned :
       /\ ~hist[j] /\ timeline[j].kind = "runway" /\ timeline[j].state = "Dry"
       /\ ~hist[k] /\ timeline[k].kind = "rain"
       /\ timeline[k].level = "rain_stopped"

\* C14: a call over a window without rows returns an empty sequence and
\* never an error: the splitter returns [] when both inputs are empty or
\* absent and raises nothing when exactly one of them is empty or absent;
\* the segmenter returns no event for zero rows.
C14_EmptyOrAbsentNoError ==
  /\ pc # "error"
  /\ (pc = "done" /\ BothEmpty) => episodes = <<>>
  /\ (seg_pc = "done" /\ df = <<>>) => result = <<>>

NonDecreasing(buf) == \A j \in 1..(Len(buf) - 1) : buf[j].t <= buf[j + 1].t

LastTimes(e) ==
  {e.rain_df[Len(e.rain_df)].t}
    \cup (IF e.runway_df = <<>> THEN {} ELSE {e.runway_df[Len(e.runway_df)].t})

\* C16: every emitted episode has a non-empty rain buffer whose first row
\* is not rain-stopped, start equal to that row's timestamp, start <= end,
\* end equal to the timestamp of the last row folded in, every buffered
\* row within start..end, and both buffers in non-decreasing time order.
C16_EpisodeShape ==
  \A n \in 1..Len(episodes) :
    LET e == episodes[n]
    IN  /\ e.rain_df # <<>>
        /\ e.rain_df[1].level # "rain_stopped"
        /\ e.start = e.rain_df[1].t
        /\ e.start <= e.end
        /\ e.end \in LastTimes(e)
        /\ \A j \in 1..Len(e.rain_df) :
             e.start <= e.rain_df[j].t /\ e.rain_df[j].t <= e.end
        /\ \A j \in 1..Len(e.runway_df) :
             e.start <= e.runway_df[j].t /\ e.runway_df[j].t <= e.end
        /\ NonDecreasing(e.rain_df)
        /\ NonDecreasing(e.runway_df)

\* an emitted episode that spans two timestamps and holds two rain rows
\* and a runway row
C16_Witness ==
  /\ pc = "done"
  /\ \E n \in 1..Len(episodes) :
       /\ episodes[n].start < episodes[n].end
       /\ Len(episodes[n].rain_df) >= 2
       /\ episodes[n].runway_df # <<>>

Occurrences(k, n) ==
  Cardinality({j \in 1..Len(episodes[n].rain_df) :
                 episodes[n].rain_df[j].id = timeline[k].id})

C17_State ==
  pc = "done" =>
    \A k \in 1..Len(timeline) :
      (timeline[k].kind = "rain" /\ timeline[k].level # "rain_stopped")
        => /\ \E n \in 1..Len(episodes) : Occurrences(k, n) = 1
           /\ \A m, n \in 1..Len(episodes) :
                (Occurrences(k, m) > 0 /\ Occurrences(k, n) > 0) => m = n

C17_Step ==
  \A n \in 1..Len(episodes) :
    Len(episodes') >= n /\ episodes'[n] = episodes[n]

\* C17: every rain row whose level is not rain-stopped is held by exactly
\* one emitted episode, once; an emitted episode is never changed by rows
\* scanned later.
C17_RainKeptOnceEpisodesFrozen == [][C17_Step]_vars /\ []C17_State

\* two episodes were emitted, the first closed on a dry-class row; the
\* second was opened and extended by later rain rows
C17_Witness ==
  /\ pc = "done"
  /\ Len(episodes) >= 2
  /\ Len(episodes[2].rain_df) >= 2
  /\ episodes[1].runway_df # <<>>

\* ------------------------------------------------------- RAIN_LEVEL_MAP
\* The program's values are 0, 0.5, 1, 2, 3, 4 and 3.5; the model keeps
\* them doubled so that they stay integers (the order is unchanged).
RAIN_LEVEL_MAP_thunderTop ==
  [l \in RainLevels |->
     CASE l = "rain_stopped" -> 0
       [] l = "drizzle" -> 1
       [] l = "light" -> 2
       [] l = "moderate" -> 4
       [] l = "heavy" -> 6
       [] l = "violent" -> 8
       [] l = "thunderstorm" -> 9]

RAIN_LEVEL_MAP ==
  [l \in RainLevels |->
     CASE l = "rain_stopped" -> 0
       [] l = "drizzle" -> 1
       [] l = "light" -> 2
       [] l = "moderate" -> 4
       [] l = "heavy" -> 6
       [] l = "violent" -> 8
       [] l = "thunderstorm" -> 7]

\* ----------------------------------------------------------- format_event
MaxOf(S) == CHOOSE m \in S : \A x \in S : x <= m

\* list.index(v): position of the first element equal to v
IndexOf(seq, v) ==
  CHOOSE k \in 1..Len(seq) : seq[k] = v /\ \A j \in 1..(k - 1) : seq[j] # v

format_event(records) ==
  LET times == [k \in 1..Len(records) |-> records[k].t]
      rains == [k \in 1..Len(records) |-> records[k].level]
      strengths == [k \in 1..Len(records) |-> RAIN_LEVEL_MAP[rains[k]]]
  IN  [records |-> records,
       start |-> times[1],
       end |-> times[Len(times)],
       duration |-> times[Len(times)] - times[1],
       max_rain |-> rains[IndexOf(strengths, MaxOf(Range(strengths)))],
       process |-> rains]

\* ---------------------------------------------------- analyze_rain_events
InitSeg ==
  /\ seg_pc = "call"
  /\ df \in RainFrames(MaxSeg, SegTimes, RainLevels)
  /\ sorted_df = <<>>
  /\ seg_pos = 0
  /\ events = <<>>
  /\ current = <<>>
  /\ result = <<>>
  /\ SplitIdle
  /\ TimeIdle
  /\ StoreIdle
  /\ VnIdle

\* df = df.copy(); df = df.sort_values(time)
SegSort ==
  /\ seg_pc = "call"
  /\ sorted_df' \in SortValues(df)
  /\ seg_pc' = "scan"
  /\ UNCHANGED <<df, seg_pos, events, current, result, splitVars, timeVars,
                 storeVars, vnVars>>

SegScanning == seg_pc = "scan" /\ seg_pos < Len(sorted_df)

row == sorted_df[seg_pos + 1]

\* row level != rain_stopped: current.append(row)
SegAppend ==
  /\ SegScanning
  /\ row.level # "rain_stopped"
  /\ current' = Append(current, row)
  /\ seg_pos' = seg_pos + 1
  /\ UNCHANGED <<seg_pc, df, sorted_df, events, result, splitVars, timeVars,
                 storeVars, vnVars>>

\* row level = rain_stopped: the row ends the current event
SegSeal ==
  /\ SegScanning
  /\ row.level = "rain_stopped"
  /\ events' = Append(events, Append(current, row))
  /\ current' = <<>>
  /\ seg_pos' = seg_pos + 1
  /\ UNCHANGED <<seg_pc, df, sorted_df, result, splitVars, timeVars,
                 storeVars, vnVars>>

SegReturn_noFlush ==
  /\ seg_pc = "scan"
  /\ seg_pos = Len(sorted_df)
  /\ result' = [k \in 1..Len(events) |-> format_event(events[k])]
  /\ seg_pc' = "done"
  /\ UNCHANGED <<df, sorted_df, seg_pos, events, current, splitVars, timeVars,
                 storeVars, vnVars>>

\* after the loop: a non-empty current is one more event; format and return
SegReturn ==
  /\ seg_pc = "scan"
  /\ seg_pos = Len(sorted_df)
  /\ LET evs == IF current # <<>> THEN Append(events, current) ELSE events
     IN  /\ events' = evs
         /\ result' = [k \in 1..Len(evs) |-> format_event(evs[k])]
  /\ seg_pc' = "done"
  /\ UNCHANGED <<df, sorted_df, seg_pos, current, splitVars, timeVars,
                 storeVars, vnVars>>

NextSeg ==
  \/ SegSort
  \/ SegAppend
  \/ SegSeal
  \/ SegReturn

SpecSeg == InitSeg /\ [][NextSeg]_vars

\* ======================================================================
\* Properties of analyze_rain_events / format_event (checked under SpecSeg)
\* ======================================================================
RECURSIVE Flatten(_)
Flatten(evs) ==
  IF evs = <<>> THEN <<>> ELSE evs[1].records \o Flatten(Tail(evs))

Stops(seq) == {k \in 1..Len(seq) : seq[k].level = "rain_stopped"}

\* C7: for a time-ordered input (equal timestamps included) the record
\* lists of the returned events, concatenated in output order, are exactly
\* the input sequence: same rows, same order.
C7_ConcatReproducesInput ==
  seg_pc = "done" => Flatten(result) = df

\* C8 as stated: every input without a rain-stopped row gives exactly one
\* event.
C8_NoStopOneEvent ==
  (seg_pc = "done" /\ Stops(df) = {}) => Len(result) = 1

\* C8 amended: every non-empty input without a rain-stopped row gives
\* exactly one event (an input of zero rows gives zero events).
C8_NonEmptyNoStopOneEvent ==
  (seg_pc = "done" /\ Stops(df) = {})
    => Len(result) = (IF df = <<>> THEN 0 ELSE 1)

\* several rows, none rain-stopped, returned as one event
C8_Witness ==
  /\ seg_pc = "done"
  /\ Len(df) >= 2
  /\ Stops(df) = {}
  /\ Len(result) = 1
  /\ Len(result[1].records) = Len(df)

RankIn(order, l) == CHOOSE k \in 1..Len(order) : order[k] = l

\* the intensity order as the specification states it
StatedOrder ==
  <<"rain_stopped", "drizzle", "light", "moderate", "heavy", "violent",
    "thunderstorm">>

\* the intensity order with thunderstorm-rain between heavy and violent
SeverityOrder ==
  <<"rain_stopped", "drizzle", "light", "moderate", "heavy", "thunderstorm",
    "violent">>

PeakUnder(order, e) ==
  \E k \in 1..Len(e.records) :
    /\ e.max_rain = e.records[k].level
    /\ \A j \in 1..Len(e.records) :
         RankIn(order, e.records[j].level) <= RankIn(order, e.records[k].level)

\* C10 as stated: the reported peak is the level greatest under
\* rain-stopped < drizzle < light < moderate < heavy < violent <
\* thunderstorm-rain.
C10_PeakUnderStatedOrder ==
  \A n \in 1..Len(result) : PeakUnder(StatedOrder, result[n])

\* C10 amended: the reported peak is the level greatest under
\* rain-stopped < drizzle < light < moderate < heavy < thunderstorm-rain <
\* violent; an event holding both a violent and a thunderstorm-rain row
\* reports violent.
C10_PeakUnderSeverityOrder ==
  \A n \in 1..Len(result) : PeakUnder(SeverityOrder, result[n])

\* an event holding heavy, thunderstorm-rain and violent rows reports
\* violent
C10_Witness ==
  /\ seg_pc = "done"
  /\ \E n \in 1..Len(result) :
       LET r == result[n].records
       IN  /\ \E j \in 1..Len(r) : r[j].level = "thunderstorm"
           /\ \E j \in 1..Len(r) : r[j].level = "violent"
           /\ \E j \in 1..Len(r) : r[j].level = "heavy"
           /\ result[n].max_rain = "violent"

\* ------------------------------------------------------ parse_time_numeric
\* Characters the time text is drawn from.  "ar3" stands for ARABIC-INDIC
\* DIGIT THREE, a decimal digit other than 0-9 (str.isdigit() is true and
\* int() reads it as 3); "sup2" stands for SUPERSCRIPT TWO (str.isdigit()
\* is true, int() raises ValueError).
AsciiDigits == {"0", "2", "3", "4", "5", "6", "9"}

\* characters of the texts tried: the digits that reach both sides of the
\* limits 23 and 59, a blank, and the two decimal characters outside ASCII
TextChars == {"0", "2", "3", "4", "6", "9", " ", "ar3", "sup2"}

TextInputs == UNION {[1..n -> TextChars] : n \in 0..MaxText}

\* str.strip()
strip(s) ==
  LET keep == {k \in 1..Len(s) : s[k] # " "}
  IN  IF keep = {} THEN <<>>
      ELSE SubSeq(s, CHOOSE k \in keep : \A j \in keep : k <= j,
                     CHOOSE k \in keep : \A j \in keep : j <= k)

\* str.isdigit()
isdigit(s) == s # <<>> /\ \A k \in 1..Len(s) : s[k] \in AsciiDigits \cup {"ar3", "sup2"}

\* int() of one character; -1 where int() raises ValueError
DigitValue(c) ==
  CASE c = "0" -> 0 [] c = "2" -> 2 [] c = "3" -> 3 [] c = "4" -> 4
    [] c = "5" -> 5 [] c = "6" -> 6 [] c = "9" -> 9 [] c = "ar3" -> 3
    [] OTHER -> -1

\* int() of a two-character text; -1 where int() raises ValueError
int2(s) ==
  IF DigitValue(s[1]) < 0 \/ DigitValue(s[2]) < 0 THEN -1
  ELSE 10 * DigitValue(s[1]) + DigitValue(s[2])

parse_time_numeric_noStrip(raw) ==
  LET s == raw
      hh == CASE Len(s) = 4 -> SubSeq(s, 1, 2)
               [] Len(s) = 3 -> <<"0", s[1]>>
               [] OTHER -> <<"0", "0">>
      mm == CASE Len(s) = 4 -> SubSeq(s, 3, 4)
               [] Len(s) = 3 -> SubSeq(s, 2, 3)
               [] Len(s) = 2 -> s
               [] OTHER -> <<"0", s[1]>>
  IN  IF ~isdigit(s) THEN NoneRet
      ELSE IF Len(s) > 4 THEN NoneRet
      ELSE IF int2(hh) < 0 \/ int2(mm) < 0 THEN NoneRet
      ELSE IF ~(0 <= int2(hh) /\ int2(hh) <= 23 /\ 0 <= int2(mm) /\ int2(mm) <= 59)
        THEN NoneRet
      ELSE [ok |-> TRUE, text |-> hh \o <<":">> \o mm]

parse_time_numeric(raw) ==
  LET s == strip(raw)
      hh == CASE Len(s) = 4 -> SubSeq(s, 1, 2)
               [] Len(s) = 3 -> <<"0", s[1]>>
               [] OTHER -> <<"0", "0">>
      mm == CASE Len(s) = 4 -> SubSeq(s, 3, 4)
               [] Len(s) = 3 -> SubSeq(s, 2, 3)
               [] Len(s) = 2 -> s
               [] OTHER -> <<"0", s[1]>>
  IN  IF ~isdigit(s) THEN NoneRet
      ELSE IF Len(s) > 4 THEN NoneRet
      ELSE IF int2(hh) < 0 \/ int2(mm) < 0 THEN NoneRet
      ELSE IF ~(0 <= int2(hh) /\ int2(hh) <= 23 /\ 0 <= int2(mm) /\ int2(mm) <= 59)
        THEN NoneRet
      ELSE [ok |-> TRUE, text |-> hh \o <<":">> \o mm]

InitTime ==
  /\ time_pc = "call"
  /\ time_raw \in TextInputs
  /\ time_ret = NoneRet
  /\ SplitIdle
  /\ SegIdle
  /\ StoreIdle
  /\ VnIdle

ParseTime ==
  /\ time_pc = "call"
  /\ time_ret' = parse_time_numeric(time_raw)
  /\ time_pc' = "done"
  /\ UNCHANGED <<time_raw, splitVars, segVars, storeVars, vnVars>>

NextTime == ParseTime

SpecTime == InitTime /\ [][NextTime]_vars

\* ======================================================================
\* Properties of parse_time_numeric (checked under SpecTime)
\* ======================================================================
DecimalDigits == AsciiDigits \cup {"ar3"}

RECURSIVE Numeral(_)
\* the number a text of decimal digits denotes
Numeral(s) ==
  IF s = <<>> THEN 0
  ELSE 10 * Numeral(SubSeq(s, 1, Len(s) - 1)) + DigitValue(s[Len(s)])

\* s is 1 to 4 decimal digits that denote a clock time
ClockDigits(s) ==
  /\ Len(s) \in 1..4
  /\ \A k \in 1..Len(s) : s[k] \in DecimalDigits
  /\ Numeral(s) \div 100 <= 23
  /\ Numeral(s) % 100 <= 59

\* the digits of s, zero-padded on the left to HH:MM
ClockText(s) ==
  LET z == [k \in 1..(4 - Len(s)) |-> "0"] \o s
  IN  <<z[1], z[2], ":", z[3], z[4]>>

\* C11 as stated: a text is accepted iff it consists of 1 to 4 decimal
\* digits that denote a time with 0<=HH<=23 and 0<=MM<=59, and the result
\* is then the zero-padded HH:MM; every other text is rejected.
C11_AcceptsIffClockDigits ==
  time_pc = "done" =>
    /\ time_ret.ok <=> ClockDigits(time_raw)
    /\ time_ret.ok => time_ret.text = ClockText(time_raw)

\* C11 amended: a text is accepted iff, once the blanks around it are
\* removed, it consists of 1 to 4 decimal digits that denote a time with
\* 0<=HH<=23 and 0<=MM<=59, and the result is then the zero-padded HH:MM
\* of those digits; every other text is rejected.
C11_AcceptsIffStrippedClockDigits ==
  time_pc = "done" =>
    /\ time_ret.ok <=> ClockDigits(strip(time_raw))
    /\ time_ret.ok => time_ret.text = ClockText(strip(time_raw))

\* "239" was read as HMM and returned as 02:39
C11_Witness ==
  /\ time_pc = "done"
  /\ time_raw = <<"2", "3", "9">>
  /\ time_ret = [ok |-> TRUE, text |-> <<"0", "2", ":", "3", "9">>]

\* --------------------------------------------------------- event store
\* A stored timestamp "YYYY-MM-DD HH:MM" is kept as its date (a day
\* number) and its HH:MM text.  The code and note columns are carried
\* through unchanged and are left out.
\* the two days the date pickers offer here
Dates == 1..2

\* time texts the operator types: " 9", "2359", "99", and "3" typed as a
\* decimal digit outside ASCII (full-width or Arabic-Indic)
StoreTexts ==
  {<<" ", "9">>, <<"2", "3", "5", "9">>, <<"9", "9">>, <<"ar3">>}

TimeStr(date, hhmm) == [date |-> date, hhmm |-> hhmm]

CharCode(c) ==
  CASE c = " " -> 32 [] c = "0" -> 48 [] c = "2" -> 50 [] c = "3" -> 51
    [] c = "4" -> 52 [] c = "5" -> 53 [] c = "6" -> 54 [] c = "9" -> 57
    [] c = ":" -> 58 [] OTHER -> 217

RECURSIVE TextLess(_, _)
\* text comparison of two strings (BINARY collation)
TextLess(a, b) ==
  IF b = <<>> THEN FALSE
  ELSE IF a = <<>> THEN TRUE
  ELSE IF CharCode(a[1]) # CharCode(b[1]) THEN CharCode(a[1]) < CharCode(b[1])
  ELSE TextLess(Tail(a), Tail(b))

\* ts1 < ts2 as texts "YYYY-MM-DD HH:MM"
StampLess(ts1, ts2) ==
  \/ ts1.date < ts2.date
  \/ ts1.date = ts2.date /\ TextLess(ts1.hhmm, ts2.hhmm)

RECURSIVE OrderBy(_)
\* ORDER BY the timestamp column: the table is scanned in rowid order and
\* the sorter keeps rows of equal key in scan order
OrderBy(rows) ==
  IF rows = <<>> THEN <<>>
  ELSE LET front == OrderBy(SubSeq(rows, 1, Len(rows) - 1))
           r == rows[Len(rows)]
           n == Cardinality({k \in 1..Len(front) : ~StampLess(r.ts, front[k].ts)})
       IN  SubSeq(front, 1, n) \o <<r>> \o SubSeq(front, n + 1, Len(front))

\* SQL NULL as a date
NullDate == 0

\* SQLite date(ts): the date of a text it can read as a date and time,
\* NULL otherwise; it reads ASCII digits only
SqlDate(ts) ==
  IF \A k \in 1..Len(ts.hhmm) : ts.hhmm[k] \in AsciiDigits \cup {":"}
    THEN ts.date
    ELSE NullDate

\* x BETWEEN lo AND hi, which is not true of NULL
Between(x, lo, hi) == x # NullDate /\ lo <= x /\ x <= hi

RECURSIVE SelectWhere(_, _, _)
\* the rows with date(ts) BETWEEN lo AND hi, in rowid order
SelectWhere(rows, lo, hi) ==
  IF rows = <<>> THEN <<>>
  ELSE LET restRows == SelectWhere(SubSeq(rows, 1, Len(rows) - 1), lo, hi)
           r == rows[Len(rows)]
       IN  IF Between(SqlDate(r.ts), lo, hi) THEN Append(restRows, r)
           ELSE restRows

RangeQuery(rows, lo, hi) == OrderBy(SelectWhere(rows, lo, hi))

\* INSERT INTO ... VALUES (time_str, label): a new row with the next id
Insert(rows, ts, label) ==
  Append(rows, [id |-> Len(rows) + 1, ts |-> ts, label |-> label])

Stored == Len(rain_events) + Len(runway_states)

InitStore ==
  /\ StoreIdle
  /\ SplitIdle
  /\ SegIdle
  /\ TimeIdle
  /\ VnIdle

\* the "save rain record" button
SaveRain_unchecked ==
  \E date \in Dates, raw \in StoreTexts :
    /\ Stored < MaxStored
    /\ op' = "save_rain"
    /\ raw_in' = raw
    /\ rain_events' =
         Insert(rain_events, TimeStr(date, parse_time_numeric(raw).text), "light")
    /\ ui_msg' = "success"
    /\ UNCHANGED <<runway_states, q_start, q_end, q_rows, splitVars, segVars,
                   timeVars, vnVars>>

SaveRain ==
  \E date \in Dates, raw \in StoreTexts :
    LET rain_time_hhmm == parse_time_numeric(raw)
    IN  /\ Stored < MaxStored
        /\ op' = "save_rain"
        /\ raw_in' = raw
        /\ IF ~rain_time_hhmm.ok
             THEN /\ ui_msg' = "error"
                  /\ UNCHANGED rain_events
             ELSE /\ rain_events' =
                       Insert(rain_events, TimeStr(date, rain_time_hhmm.text), "light")
                  /\ ui_msg' = "success"
        /\ UNCHANGED <<runway_states, q_start, q_end, q_rows, splitVars, segVars,
                       timeVars, vnVars>>

\* the "save runway state record" button
SaveRunway ==
  \E date \in Dates, raw \in StoreTexts :
    LET rw_time_hhmm == parse_time_numeric(raw)
    IN  /\ Stored < MaxStored
        /\ op' = "save_runway"
        /\ raw_in' = raw
        /\ IF ~rw_time_hhmm.ok
             THEN /\ ui_msg' = "error"
                  /\ UNCHANGED runway_states
             ELSE /\ runway_states' =
                       Insert(runway_states, TimeStr(date, rw_time_hhmm.text), "Wet")
                  /\ ui_msg' = "success"
        /\ UNCHANGED <<rain_events, q_start, q_end, q_rows, splitVars, segVars,
                       timeVars, vnVars>>

GetRainEvents ==
  \E start_date \in Dates, end_date \in Dates :
    /\ op' = "get_rain"
    /\ q_start' = start_date
    /\ q_end' = end_date
    /\ q_rows' = RangeQuery(rain_events, start_date, end_date)
    /\ UNCHANGED <<rain_events, runway_states, raw_in, ui_msg, splitVars,
                   segVars, timeVars, vnVars>>

GetRunwayStates ==
  \E start_date \in Dates, end_date \in Dates :
    /\ op' = "get_runway"
    /\ q_start' = start_date
    /\ q_end' = end_date
    /\ q_rows' = RangeQuery(runway_states, start_date, end_date)
    /\ UNCHANGED <<rain_events, runway_states, raw_in, ui_msg, splitVars,
                   segVars, timeVars, vnVars>>

NextStore ==
  \/ SaveRain
  \/ SaveRunway
  \/ GetRainEvents
  \/ GetRunwayStates

SpecStore == InitStore /\ [][NextStore]_vars

\* ======================================================================
\* Properties of the save buttons and the range queries (SpecStore)
\* ======================================================================
Grew(old, new) == Len(new) = Len(old) + 1 /\ SubSeq(new, 1, Len(old)) = old

C12_Step ==
  /\ (op' = "save_rain" /\ ~parse_time_numeric(raw_in').ok)
       => ui_msg' = "error" /\ UNCHANGED <<rain_events, runway_states>>
  /\ (op' = "save_runway" /\ ~parse_time_numeric(raw_in').ok)
       => ui_msg' = "error" /\ UNCHANGED <<rain_events, runway_states>>
  /\ (op' = "save_rain" /\ parse_time_numeric(raw_in').ok)
       => Grew(rain_events, rain_events') /\ UNCHANGED runway_states
  /\ (op' = "save_runway" /\ parse_time_numeric(raw_in').ok)
       => Grew(runway_states, runway_states') /\ UNCHANGED rain_events

\* C12: a save whose time text parse_time_numeric rejects reports an error
\* and inserts no row into either table; a save with an accepted text
\* inserts exactly one row, into the table of its record kind only.
C12_RejectedSaveStoresNothing == [][C12_Step]_vars

\* a save with the rejected text "99" reported an error while both tables
\* hold rows saved before
C12_Witness ==
  /\ op \in {"save_rain", "save_runway"}
  /\ raw_in = <<"9", "9">>
  /\ ui_msg = "error"
  /\ rain_events # <<>>
  /\ runway_states # <<>>

QueryCorrect(table) ==
  /\ {q_rows[k].id : k \in 1..Len(q_rows)}
       = {table[k].id : k \in {j \in 1..Len(table) :
                                 q_start <= table[j].ts.date
                                   /\ table[j].ts.date <= q_end}}
  /\ \A k \in 1..Len(q_rows) : q_rows[k] = table[q_rows[k].id]
  /\ \A j, k \in 1..Len(q_rows) :
       j < k =>
         \/ StampLess(q_rows[j].ts, q_rows[k].ts)
         \/ q_rows[j].ts = q_rows[k].ts /\ q_rows[j].id < q_rows[k].id

\* C13: a range query returns exactly the stored rows of its kind whose
\* date d satisfies start <= d <= end, ascending by timestamp, rows of
\* equal timestamp in insertion order.
C13_RangeQueryInclusiveOrdered ==
  /\ op = "get_rain" => QueryCorrect(rain_events)
  /\ op = "get_runway" => QueryCorrect(runway_states)

\* ------------------------------------------- local-time projection to_vn
\* An observation time "DDHHMMZ" is kept as its three two-digit numbers.
ObsTimes == (1..31) \X (0..23) \X (0..59)

\* to_vn(t) for a text the pattern (\d{2})(\d{2})(\d{2})Z matches: the
\* numbers printed as "{dd+add:02d}日 {hh2:02d}:{mm:02d}"
to_vn(t) ==
  LET dd == t[1]
      hh == t[2]
      mm == t[3]
      hh2 == hh + 7
  IN  IF hh2 >= 24 THEN <<dd + 1, hh2 - 24, mm>> ELSE <<dd, hh2, mm>>

InitVn ==
  /\ vn_pc = "call"
  /\ vn_in \in ObsTimes
  /\ vn_out = <<1, 0, 0>>
  /\ SplitIdle
  /\ SegIdle
  /\ TimeIdle
  /\ StoreIdle

ToVn ==
  /\ vn_pc = "call"
  /\ vn_out' = to_vn(vn_in)
  /\ vn_pc' = "done"
  /\ UNCHANGED <<vn_in, splitVars, segVars, timeVars, storeVars>>

NextVn == ToVn

SpecVn == InitVn /\ [][NextVn]_vars

\* ======================================================================
\* Property of the local-time projection (SpecVn)
\* ======================================================================
\* C15: for an observation time DDHHMMZ with DD in 01..31, HH in 00..23
\* and MM in 00..59, to_vn shows hour (HH+7) mod 24 and minute MM, shows
\* the following day exactly when HH >= 17, and the day shown is a valid
\* day of month in 1..31.
C15_LocalTimeProjection ==
  vn_pc = "done" =>
    /\ vn_out[2] = (vn_in[2] + 7) % 24
    /\ vn_out[3] = vn_in[3]
    /\ vn_out[1] = (IF vn_in[2] >= 17 THEN vn_in[1] + 1 ELSE vn_in[1])
    /\ vn_out[1] \in 1..31

====
